---- MODULE Spec2Model ----
(***************************************************************************)
(* Model of the iod desktop app's install / configuration pipeline:        *)
(*   src/src/main/installer.ts  (decode, clone, rewrite, install)          *)
(*   src/src/main/claude.ts     (config store, restart)                    *)
(*   src/unnamed/part_004       (main process: window, url events, IPC)    *)
(*   src/unnamed/part_007       (sendToWindow, createIpcHandler)           *)
(*                                                                         *)
(* install() is an async function with a single await (the clone): the     *)
(* code before the await and the code after it each run as one             *)
(* uninterrupted step of the event loop, so each is one action here.       *)
(***************************************************************************)
EXTENDS Integers, Sequences, FiniteSets, Bags, TLC

\* Bound of the model: install() invocations awaiting their clone at one time.
MaxInstalls == 2

VARIABLES
  file,        \* content of claude_desktop_config.json
  mainWindow,  \* main.ts `mainWindow`: "undefined", or "open" / "closed" for the window it refers to
  inflight,    \* bag of install() invocations suspended at `await gitClone`
  installed,   \* history: names whose install emitted 'success' and whose entry was not removed since
  watcher,     \* the fs.watch subscription of the window: "off", "on", or "orphan" (the watched file was removed)
  changed,     \* a 'change' event of the watcher awaits its callback
  shown,       \* history: what the watcher has told the window since it was subscribed
  last         \* history: what the previous step completed (an install, an IPC call), if anything

vars == <<file, mainWindow, inflight, installed, watcher, changed, shown, last>>

-----------------------------------------------------------------------------
\* Thrown values and results of calls.

NoErr == [isApp |-> FALSE, tmpl |-> "", arg |-> "", cause |-> ""]

\* new AppError({developerMessage, userMessage, originalError}) (error.ts):
\* tmpl/arg are the user message, cause the original error.
AppError(tmpl, arg, cause) == [isApp |-> TRUE, tmpl |-> tmpl, arg |-> arg, cause |-> cause]

\* new Error(message): no user message.
PlainError(cause) == [isApp |-> FALSE, tmpl |-> "", arg |-> "", cause |-> cause]

-----------------------------------------------------------------------------
\* Strings, paths and sequences.

\* path.join(a, b) for a non-empty relative segment b.
PathJoin(a, b) == a \o "/" \o b

\* Array.prototype.indexOf(tok, from), 1-based; 0 when absent.
IndexOfFrom(s, tok, from) ==
  LET hits == {k \in DOMAIN s : k >= from /\ s[k] = tok}
  IN IF hits = {} THEN 0 ELSE CHOOSE k \in hits : \A j \in hits : k <= j

IOD_HOME == "~/.iod"

\* Array.prototype.pop() of repoUrl.split("/"); a url is kept as its segments.
LastSegment(segments) == IF Len(segments) = 0 THEN "" ELSE segments[Len(segments)]


-----------------------------------------------------------------------------
\* installer.ts: decoding the url.

NoConfig == [command |-> "", args |-> <<>>, env |-> {}]

\* parseInstallConfigUrl(url). A url is modelled by what its payload decodes to:
\*   json      - the base64-decoded text is accepted by JSON.parse
\*   hasConfig - the parsed value has a `config` object
\*   config    - the entries of `config`, in key order, each [name, spec]
\*   git       - << >> or <<[repo_url, commit]>>
\* JSON.parse throwing, Object.keys(undefined) throwing and the key count check
\* all end in the same AppError.
\* A decoder that accepts any payload with at least one server.
parseInstallConfigUrl_AtLeastOne(url) ==
  IF ~url.json
  THEN [thrown |-> TRUE, err |-> AppError("validate", "", "SyntaxError")]
  ELSE IF ~url.hasConfig
  THEN [thrown |-> TRUE, err |-> AppError("validate", "", "TypeError")]
  ELSE IF Len(url.config) < 1
  THEN [thrown |-> TRUE, err |-> AppError("validate", "", "Error: number of servers")]
  ELSE [thrown |-> FALSE, err |-> NoErr]

\* A decoder that lets the error of JSON.parse through as it is.
parseInstallConfigUrl_Unclassified(url) ==
  IF ~url.json
  THEN [thrown |-> TRUE, err |-> PlainError("SyntaxError")]
  ELSE IF ~url.hasConfig
  THEN [thrown |-> TRUE, err |-> AppError("validate", "", "TypeError")]
  ELSE IF Len(url.config) # 1
  THEN [thrown |-> TRUE, err |-> AppError("validate", "", "Error: number of servers")]
  ELSE [thrown |-> FALSE, err |-> NoErr]

parseInstallConfigUrl(url) ==
  IF ~url.json
  THEN [thrown |-> TRUE, err |-> AppError("validate", "", "SyntaxError")]
  ELSE IF ~url.hasConfig
  THEN [thrown |-> TRUE, err |-> AppError("validate", "", "TypeError")]
  ELSE IF Len(url.config) # 1
  THEN [thrown |-> TRUE, err |-> AppError("validate", "", "Error: number of servers")]
  ELSE [thrown |-> FALSE, err |-> NoErr]

\* Object.keys(installConfig.config)[0]
ServerNameOf(url) == url.config[1].name

-----------------------------------------------------------------------------
\* installer.ts: cloning.

\* A clone of the default branch instead of the pinned commit.
CloneCall_DefaultBranch(repoUrl, commit, repoName) ==
  [dir |-> PathJoin(IOD_HOME, repoName), url |-> repoUrl, ref |-> "HEAD",
   singleBranch |-> TRUE, depth |-> 1]

\* The argument object install passes to isomorphic-git's clone().
CloneCall(repoUrl, commit, repoName) ==
  [dir |-> PathJoin(IOD_HOME, repoName), url |-> repoUrl, ref |-> commit,
   singleBranch |-> TRUE, depth |-> 1]

\* gitClone(repoUrl, commit, repoName) once clone() has settled: cloneOk says
\* whether the promise resolved.
gitClone(repoUrl, commit, repoName, cloneOk) ==
  IF cloneOk
  THEN [thrown |-> FALSE, err |-> NoErr, val |-> PathJoin(IOD_HOME, repoName)]
  ELSE [thrown |-> TRUE, err |-> AppError("download", repoName, "clone rejected"), val |-> ""]

-----------------------------------------------------------------------------
\* installer.ts: rewriting the launch spec.

\* process.platform. claude.ts computes CLAUDE_DESKTOP_CONFIG_PATH when the
\* module loads and throws on every platform but darwin, so the main process
\* only ever runs there.
Platform == "darwin"

\* app.isPackaged: the app that is registered for iod:// urls.
IsPackaged == TRUE

\* A resolver that returns the path without looking for the file.
resolveBinaryPath_Unchecked(binary, bundled) ==
  LET execFolderPath == IF IsPackaged THEN "Resources/arm64"
                        ELSE "binaries/" \o Platform \o "/arm64"
      execName == IF Platform = "win32" THEN binary \o ".exe" ELSE binary
  IN [thrown |-> FALSE, val |-> PathJoin(execFolderPath, execName)]

\* resolveBinaryPath(binary): [thrown, val]. `bundled` is the set of binaries
\* existsSync finds on disk.
resolveBinaryPath(binary, bundled) ==
  LET execFolderPath == IF IsPackaged THEN "Resources/arm64"
                        ELSE "binaries/" \o Platform \o "/arm64"
      execName == IF Platform = "win32" THEN binary \o ".exe" ELSE binary
      binaryPath == PathJoin(execFolderPath, execName)
  IN IF binary \notin bundled
     THEN [thrown |-> TRUE, val |-> ""]
     ELSE [thrown |-> FALSE, val |-> binaryPath]

\* A rewrite that pins the python version in front of the uv token.
updateUVArgs_PythonFirst(args, repoDir) ==
  LET uvIndex == IndexOfFrom(args, "uv", 1)
      directoryFlagIndex == IndexOfFrom(args, "--directory", uvIndex)
      withDir == IF directoryFlagIndex = 0 THEN args
                 ELSE IF directoryFlagIndex + 1 <= Len(args)
                      THEN [args EXCEPT ![directoryFlagIndex + 1] = repoDir]
                      ELSE Append(args, repoDir)
  IN IF uvIndex = 0 THEN [thrown |-> FALSE, val |-> args]
     ELSE IF directoryFlagIndex # 0 /\ repoDir = ""
     THEN [thrown |-> TRUE, val |-> <<>>]
     ELSE [thrown |-> FALSE,
           val |-> SubSeq(withDir, 1, uvIndex - 1) \o <<"--python", "3.12">>
                   \o SubSeq(withDir, uvIndex, Len(withDir))]

\* A rewrite that leaves the placeholder in place when there is no repository.
updateUVArgs_NoRepoCheck(args, repoDir) ==
  LET uvIndex == IndexOfFrom(args, "uv", 1)
      directoryFlagIndex == IndexOfFrom(args, "--directory", uvIndex)
      withDir == IF directoryFlagIndex = 0 \/ repoDir = "" THEN args
                 ELSE IF directoryFlagIndex + 1 <= Len(args)
                      THEN [args EXCEPT ![directoryFlagIndex + 1] = repoDir]
                      ELSE Append(args, repoDir)
  IN IF uvIndex = 0 THEN [thrown |-> FALSE, val |-> args]
     ELSE [thrown |-> FALSE,
           val |-> SubSeq(withDir, 1, uvIndex) \o <<"--python", "3.12">>
                   \o SubSeq(withDir, uvIndex + 1, Len(withDir))]

\* updateUVArgs(args, repoDir); repoDir = "" stands for undefined (`!repoDir`
\* is true of both). Returns [thrown, val].
updateUVArgs(args, repoDir) ==
  LET uvIndex == IndexOfFrom(args, "uv", 1)
      directoryFlagIndex == IndexOfFrom(args, "--directory", uvIndex)
      withDir == IF directoryFlagIndex = 0 THEN args
                 ELSE IF directoryFlagIndex + 1 <= Len(args)
                      THEN [args EXCEPT ![directoryFlagIndex + 1] = repoDir]
                      ELSE Append(args, repoDir)
  IN IF uvIndex = 0 THEN [thrown |-> FALSE, val |-> args]
     ELSE IF directoryFlagIndex # 0 /\ repoDir = ""
     THEN [thrown |-> TRUE, val |-> <<>>]
     ELSE [thrown |-> FALSE,
           val |-> SubSeq(withDir, 1, uvIndex) \o <<"--python", "3.12">>
                   \o SubSeq(withDir, uvIndex + 1, Len(withDir))]

\* updateUVXArgs(args): a copy, with or without "uvx" in it.
updateUVXArgs(args) == args

Binaries == {"uv", "uvx"}

\* replaceBinaries(config): [thrown, val].
replaceBinaries(config, bundled) ==
  LET named == {config.command} \cup {config.args[k] : k \in DOMAIN config.args}
      missing == {b \in named \cap Binaries : resolveBinaryPath(b, bundled).thrown}
      swap(tok) == IF tok \in Binaries THEN resolveBinaryPath(tok, bundled).val ELSE tok
  IN IF missing # {}
     THEN [thrown |-> TRUE, val |-> NoConfig]
     ELSE [thrown |-> FALSE,
           val |-> [command |-> swap(config.command),
                    args |-> [k \in DOMAIN config.args |-> swap(config.args[k])],
                    env |-> config.env]]

\* fixConfig(config, repoDir): [thrown, err, val]. Every error it raises is a
\* plain Error.
\* A config without `args` (the payload is cast, not validated) reaches
\* Array.from(undefined) in updateUVArgs, a TypeError.
fixConfig(config, repoDir, bundled) ==
  LET uv == updateUVArgs(config.args, repoDir)
      args == updateUVXArgs(uv.val)
      swapped == replaceBinaries([config EXCEPT !.args = args], bundled)
  IN IF "args" \notin DOMAIN config
     THEN [thrown |-> TRUE, err |-> PlainError("TypeError: Array.from(undefined)"), val |-> NoConfig]
     ELSE IF uv.thrown
     THEN [thrown |-> TRUE, err |-> PlainError("uv --directory without repoDir"), val |-> NoConfig]
     ELSE IF swapped.thrown
     THEN [thrown |-> TRUE, err |-> PlainError("binary not found"), val |-> NoConfig]
     ELSE [thrown |-> FALSE, err |-> NoErr, val |-> swapped.val]

-----------------------------------------------------------------------------
\* claude.ts: the configuration file.
\*
\* The file is text; what the code works on is JSON.parse of it, and what it
\* writes is JSON.stringify(value, null, 2). The text is kept as
\*   parseable  - JSON.parse accepts it
\*   layout     - how it is laid out ("compact", "indent2", ...)
\*   hasServers - the top-level object has an `mcpServers` object
\*   servers    - name -> << >> or <<entry>>
\*   other      - the text of one unrelated top-level field ("" = no such field)

ServerNames == {"spotify", "arxiv", "legacy"}

NoServers == [n \in ServerNames |-> <<>>]

\* Any text JSON.parse rejects (also a file cut short by a failed write).
Unparseable ==
  [parseable |-> FALSE, layout |-> "", hasServers |-> FALSE, servers |-> NoServers, other |-> ""]

\* The value JSON.parse gives a number or string literal: 1.0 and 1 are the same number.
ParseLiteral(text) == IF text = "1.0" THEN "1" ELSE IF text = "2.0" THEN "2" ELSE text

\* JSON.parse(text) of a parseable text.
JSONparse(f) ==
  [hasServers |-> f.hasServers, servers |-> f.servers, other |-> ParseLiteral(f.other)]

\* No file at CLAUDE_DESKTOP_CONFIG_PATH: readFileSync and existsSync fail.
Missing ==
  [parseable |-> FALSE, layout |-> "missing", hasServers |-> FALSE, servers |-> NoServers,
   other |-> ""]

Exists(f) == f # Missing

\* What another process (the desktop app, an editor) does to the file:
\*   "valid"   - rewrites it as valid JSON, changing the unrelated field
\*               (creating the file when there is none)
\*   "invalid" - leaves text JSON.parse rejects
\*   "remove"  - deletes it
ExternalKinds == {"valid", "invalid", "remove"}

ExternalEdit(f, kind) ==
  IF kind = "remove" THEN Missing
  ELSE IF kind = "invalid" THEN Unparseable
  ELSE IF ~f.parseable
  THEN [parseable |-> TRUE, layout |-> "tabs", hasServers |-> TRUE, servers |-> NoServers,
        other |-> "2.0"]
  ELSE [f EXCEPT !.layout = "tabs",
                 !.other = IF ParseLiteral(f.other) = "2" THEN "1.0" ELSE "2.0"]

\* A serialisation that keeps only mcpServers.
JSONstringify_DropsOther(doc) ==
  [parseable |-> TRUE, layout |-> "indent2", hasServers |-> doc.hasServers,
   servers |-> doc.servers, other |-> ""]

\* JSON.stringify(value, null, 2)
JSONstringify(doc) ==
  [parseable |-> TRUE, layout |-> "indent2", hasServers |-> doc.hasServers,
   servers |-> doc.servers, other |-> doc.other]

\* Faults of the file system during one store call: readFileSync throws, or
\* writeFileSync throws after truncating the file.
IOFaults == {"none", "read", "partial"}

\* What happens around one store call: a fault of the file system (IOFaults),
\* or "edit": another process rewrites the file between the call's
\* readFileSync and its writeFileSync.
IOEvents == IOFaults \cup {"edit"}

\* A store call that writes its change over an empty set of entries instead of
\* the entries it has just read (what a stale read would do).
ReadModifyWrite_FromEmpty(f, io, name, entry) ==
  LET doc == JSONparse(f)
      updated == [doc EXCEPT !.servers = [NoServers EXCEPT ![name] = entry]]
      atWrite == IF io = "edit" THEN ExternalEdit(f, "valid") ELSE f
  IN IF io = "read" \/ ~Exists(f) THEN [fault |-> "read", file |-> f, atWrite |-> f]
     ELSE IF ~f.parseable THEN [fault |-> "parse", file |-> f, atWrite |-> f]
     ELSE IF ~doc.hasServers THEN [fault |-> "type", file |-> f, atWrite |-> f]
     ELSE IF io = "partial" THEN [fault |-> "write", file |-> Unparseable, atWrite |-> f]
     ELSE [fault |-> "", file |-> JSONstringify(updated), atWrite |-> atWrite]

\* A store call that reads the file again just before it writes and applies
\* its change to what it finds then.
ReadModifyWrite_Rereads(f, io, name, entry) ==
  LET doc == JSONparse(f)
      atWrite == IF io = "edit" THEN ExternalEdit(f, "valid") ELSE f
      updated == [JSONparse(atWrite) EXCEPT !.servers[name] = entry]
  IN IF io = "read" \/ ~Exists(f) THEN [fault |-> "read", file |-> f, atWrite |-> f]
     ELSE IF ~f.parseable THEN [fault |-> "parse", file |-> f, atWrite |-> f]
     ELSE IF ~doc.hasServers THEN [fault |-> "type", file |-> f, atWrite |-> f]
     ELSE IF io = "partial" THEN [fault |-> "write", file |-> Unparseable, atWrite |-> f]
     ELSE [fault |-> "", file |-> JSONstringify(updated), atWrite |-> atWrite]

\* The read-modify-write of writeMCPServerConfig and deleteMCPServer, lines
\* 104-110 and 229-235: `change` is the assignment or delete on
\* jsonConfig.mcpServers, which throws a TypeError when mcpServers is undefined.
\* Returns [fault, file, atWrite]: fault = "" when nothing threw; atWrite is
\* the content writeFileSync replaced (what the file held when it ran; without
\* a write, the file as it is).
ReadModifyWrite(f, io, name, entry) ==
  LET doc == JSONparse(f)
      updated == [doc EXCEPT !.servers[name] = entry]
      atWrite == IF io = "edit" THEN ExternalEdit(f, "valid") ELSE f
  IN IF io = "read" \/ ~Exists(f) THEN [fault |-> "read", file |-> f, atWrite |-> f]
     ELSE IF ~f.parseable THEN [fault |-> "parse", file |-> f, atWrite |-> f]
     ELSE IF ~doc.hasServers THEN [fault |-> "type", file |-> f, atWrite |-> f]
     ELSE IF io = "partial" THEN [fault |-> "write", file |-> Unparseable, atWrite |-> f]
     ELSE [fault |-> "", file |-> JSONstringify(updated), atWrite |-> atWrite]

\* writeMCPServerConfig(serverName, serverConfig): [thrown, err, fault, file, atWrite]
writeMCPServerConfig(serverName, serverConfig, f, io) ==
  LET r == ReadModifyWrite(f, io, serverName, <<serverConfig>>)
  IN [thrown |-> r.fault # "",
      err |-> IF r.fault # "" THEN AppError("write", serverName, r.fault) ELSE NoErr,
      fault |-> r.fault, file |-> r.file, atWrite |-> r.atWrite]

\* deleteMCPServer({serverName}): [thrown, err, fault, file, atWrite]
deleteMCPServer(serverName, f, io) ==
  LET r == ReadModifyWrite(f, io, serverName, <<>>)
  IN [thrown |-> r.fault # "",
      err |-> IF r.fault # "" THEN AppError("delete", serverName, r.fault) ELSE NoErr,
      fault |-> r.fault, file |-> r.file, atWrite |-> r.atWrite]

\* getMCPServers(): [thrown, err, val]
getMCPServers(f, io) ==
  IF io = "read" \/ ~f.parseable
  THEN [thrown |-> TRUE,
        err |-> AppError("retrieve", "", IF io = "read" \/ ~Exists(f) THEN "read" ELSE "parse"),
        val |-> NoServers]
  ELSE IF ~JSONparse(f).hasServers
  THEN [thrown |-> FALSE, err |-> NoErr, val |-> NoServers]
  ELSE [thrown |-> FALSE, err |-> NoErr, val |-> JSONparse(f).servers]

\* restartClaudeDesktop(): execOk says whether execSync(osascript ...) returned.
restartClaudeDesktop(execOk) ==
  IF Platform = "darwin" /\ execOk
  THEN [thrown |-> FALSE, err |-> NoErr]
  ELSE [thrown |-> TRUE, err |-> PlainError("restart")]

-----------------------------------------------------------------------------
\* ipc.ts (part_007) and the window of main.ts (part_004).

\* The window an install() was handed: "none" (mainWindow was undefined),
\* "current" (the window mainWindow still refers to) or "stale" (a window
\* replaced since). A closed BrowserWindow is destroyed; `mainWindow` keeps
\* referring to it until createWindow assigns a new one.
IsDestroyed(win) == win = "stale" \/ (win = "current" /\ mainWindow = "closed")

\* A send that delivers the note twice.
sendToWindow_Twice(win, note) ==
  IF IsDestroyed(win)
  THEN [thrown |-> TRUE, sent |-> <<>>]
  ELSE [thrown |-> FALSE, sent |-> <<note, note>>]

\* sendToWindow(window, 'notify', note): window.webContents.send throws on a
\* destroyed window. [thrown, sent]
sendToWindow(win, note) ==
  IF IsDestroyed(win)
  THEN [thrown |-> TRUE, sent |-> <<>>]
  ELSE [thrown |-> FALSE, sent |-> <<note>>]

\* A handler that answers with the text of the error it caught.
createIpcHandler_LeaksCause(r) ==
  IF ~r.thrown
  THEN [success |-> TRUE, data |-> IF "val" \in DOMAIN r THEN <<r.val>> ELSE << >>,
        error |-> <<"", "">>]
  ELSE IF r.err.isApp
  THEN [success |-> FALSE, data |-> << >>, error |-> <<r.err.tmpl, r.err.arg>>]
  ELSE [success |-> FALSE, data |-> << >>, error |-> <<r.err.cause, "">>]

\* createIpcHandler(fn) applied to the outcome r of fn(args): the IpcResponse
\* the handler resolves to. data is << >> for undefined, error is the user
\* message as <<template, argument>>.
createIpcHandler(r) ==
  IF ~r.thrown
  THEN [success |-> TRUE, data |-> IF "val" \in DOMAIN r THEN <<r.val>> ELSE << >>,
        error |-> <<"", "">>]
  ELSE IF r.err.isApp
  THEN [success |-> FALSE, data |-> << >>, error |-> <<r.err.tmpl, r.err.arg>>]
  ELSE [success |-> FALSE, data |-> << >>, error |-> <<"An unexpected error occurred", "">>]

-----------------------------------------------------------------------------
\* claude.ts: watching the configuration file.

\* A watch() that subscribes whether or not the file exists.
watchClaudeDesktopConfig_Always(f) ==
  [thrown |-> FALSE, result |-> "unwatch", watcher |-> "on"]

\* watchClaudeDesktopConfig(mainWindow), lines 157-163 and 188-190: what it
\* returns ("false" or the unwatch function) and the subscription it leaves.
watchClaudeDesktopConfig(f) ==
  IF ~Exists(f)
  THEN [thrown |-> FALSE, result |-> "false", watcher |-> "off"]
  ELSE [thrown |-> FALSE, result |-> "unwatch", watcher |-> "on"]

\* An unwatch that leaves the subscription as it is.
unwatch_KeepsWatching(w) == [thrown |-> FALSE, watcher |-> w]

\* The function watch() returns: watcher.close(). FSWatcher.close() returns
\* at once on a watcher that is already closed.
unwatch(w) == [thrown |-> FALSE, watcher |-> "off"]

WatcherStates == {"off", "on", "orphan"}

ConfigErrorNote ==
  [type |-> "error", title |-> "Claude Desktop App Config Error", tmpl |-> "config-changed-unreadable",
   arg |-> ""]

\* A callback that gives up watching when it cannot read the file.
OnChange_StopsOnFailure(f, io, win, w) ==
  IF io # "read" /\ Exists(f) /\ f.parseable
  THEN [config |-> sendToWindow(win, JSONparse(f)).sent, notes |-> << >>, watcher |-> w]
  ELSE [config |-> << >>, notes |-> sendToWindow(win, ConfigErrorNote).sent, watcher |-> "off"]

\* watcher.on("change", ...) for a 'change' event, lines 164-186: what it
\* sends on 'claude:config-changed' (config) and on 'notify' (notes), and the
\* subscription it leaves.
OnChange(f, io, win, w) ==
  IF io # "read" /\ Exists(f) /\ f.parseable
  THEN [config |-> sendToWindow(win, JSONparse(f)).sent, notes |-> << >>, watcher |-> w]
  ELSE [config |-> << >>, notes |-> sendToWindow(win, ConfigErrorNote).sent, watcher |-> w]

\* A watcher that reports no modification.
Delivered_Nothing(w, pending, kind) == {<<w, pending>>}

\* What a modification of the file queues for the watcher. fs.watch reports a
\* removal as 'rename', which the callback ignores; whether a watcher whose
\* file was removed still reports changes of a file created in its place
\* depends on the platform. Pending events of one file are coalesced.
\* Returns the possible next values of <<watcher, changed>>.
Delivered(w, pending, kind) ==
  IF kind = "none" \/ w = "off" THEN {<<w, pending>>}
  ELSE IF kind = "remove" THEN {<<"orphan", pending>>}
  ELSE IF w = "on" THEN {<<"on", TRUE>>}
  ELSE {<<"orphan", pending>>, <<"orphan", TRUE>>}

\* What the window has been told since the watcher was subscribed.
\*   "unmodified": no event was delivered, the file's content has not changed;
\*   "nothing":    no event was delivered, the content has changed;
\*   "current":    the content has not changed since the last
\*                 'claude:config-changed' event delivered;
\*   "behind":     the content has changed since the last event delivered
\*                 (it differed from the event's document when it changed).
NothingShown == "unmodified"

\* A write turns file f into file g.
Modified(s, f, g) ==
  IF g = f THEN s
  ELSE IF s = "unmodified" THEN "nothing"
  ELSE IF s = "current" THEN "behind"
  ELSE s

-----------------------------------------------------------------------------
\* The inputs: urls handed to the app, initial files, what the environment does.

SpotifySpec ==
  [command |-> "uvx",
   args |-> <<"omproxy@latest", "uv", "--directory", "", "run", "spotify-mcp">>,
   env |-> {<<"NODE_ENV", "development">>}]

SpotifyGit ==
  [repo_url |-> <<"https:", "", "github.com", "varunneal", "spotify-mcp">>,
   commit |-> "036a87c146c7cfffccc1996c36ad178b5dd3f87f"]

ArxivSpec == [command |-> "uv", args |-> <<"run", "arxiv-mcp-server">>, env |-> {}]

ArxivGit ==
  [repo_url |-> <<"https:", "", "github.com", "blazickjp", "arxiv-mcp-server">>, commit |-> "f00d"]

LegacySpec == [command |-> "npx", args |-> <<"legacy-server">>, env |-> {}]

\* The descriptor of tests/installer.test.ts.
UrlSpotify ==
  [json |-> TRUE, hasConfig |-> TRUE,
   config |-> <<[name |-> "spotify", spec |-> SpotifySpec]>>, git |-> <<SpotifyGit>>]

UrlArxiv ==
  [json |-> TRUE, hasConfig |-> TRUE,
   config |-> <<[name |-> "arxiv", spec |-> ArxivSpec]>>, git |-> <<ArxivGit>>]

\* No git source: install() runs to its end without awaiting anything.
UrlLegacy ==
  [json |-> TRUE, hasConfig |-> TRUE,
   config |-> <<[name |-> "legacy", spec |-> LegacySpec]>>, git |-> << >>]

\* uv --directory without a git source.
UrlUvDirNoGit ==
  [json |-> TRUE, hasConfig |-> TRUE,
   config |-> <<[name |-> "spotify", spec |-> SpotifySpec]>>, git |-> << >>]

\* A repository url ending in "/": its last segment is empty.
UrlBadRepo ==
  [json |-> TRUE, hasConfig |-> TRUE,
   config |-> <<[name |-> "legacy", spec |-> LegacySpec]>>,
   git |-> <<[repo_url |-> <<"https:", "", "github.com", "x", "">>, commit |-> "f00d"]>>]

UrlTwoServers ==
  [json |-> TRUE, hasConfig |-> TRUE,
   config |-> <<[name |-> "spotify", spec |-> SpotifySpec], [name |-> "arxiv", spec |-> ArxivSpec]>>,
   git |-> << >>]

\* {"config": {}}
UrlNoServers == [json |-> TRUE, hasConfig |-> TRUE, config |-> << >>, git |-> << >>]

\* One server whose config has no `args`.
UrlNoArgs ==
  [json |-> TRUE, hasConfig |-> TRUE,
   config |-> <<[name |-> "legacy", spec |-> [command |-> "npx", env |-> {}]]>>, git |-> << >>]

\* A payload JSON.parse rejects.
UrlGarbage == [json |-> FALSE, hasConfig |-> FALSE, config |-> << >>, git |-> << >>]

Urls ==
  {UrlSpotify, UrlArxiv, UrlLegacy, UrlUvDirNoGit, UrlBadRepo, UrlTwoServers, UrlNoServers,
   UrlNoArgs, UrlGarbage}

\* The file claude.ts writes when none exists (line 86): "{}".
BootstrapFile ==
  [parseable |-> TRUE, layout |-> "compact", hasServers |-> FALSE, servers |-> NoServers, other |-> ""]

\* A file the desktop app wrote: one server and an unrelated field.
ExistingFile ==
  [parseable |-> TRUE, layout |-> "tabs", hasServers |-> TRUE,
   servers |-> [NoServers EXCEPT !["legacy"] = <<LegacySpec>>], other |-> "1.0"]

InitFiles == {BootstrapFile, ExistingFile, Unparseable}

\* What the environment does to the part of one install() that follows the
\* clone: the bundled binaries existsSync finds, the fault of the file system
\* during the store call (or the edit of another process in the middle of
\* it), whether osascript succeeds. A fault ends the install, so one fault at
\* a time covers every run.
EnvOk == [bundled |-> {"uv", "uvx"}, io |-> "none", execOk |-> TRUE]

Envs ==
  {EnvOk,
   [EnvOk EXCEPT !.bundled = {"uvx"}],
   [EnvOk EXCEPT !.io = "read"],
   [EnvOk EXCEPT !.io = "partial"],
   [EnvOk EXCEPT !.io = "edit"],
   [EnvOk EXCEPT !.execOk = FALSE]}

-----------------------------------------------------------------------------
\* installer.ts: install().

NoResponse == [success |-> FALSE, data |-> << >>, error |-> <<"", "">>]

\* The record of what the previous step completed.
NoReport ==
  [op |-> "none", url |-> UrlGarbage, win |-> "none", destroyed |-> FALSE, name |-> "",
   events |-> << >>, cloneCalls |-> << >>, writeCalls |-> << >>, restarts |-> 0,
   notes |-> << >>, rejected |-> FALSE, io |-> "none", docBefore |-> "", fault |-> "",
   entryBefore |-> << >>, entryAfter |-> << >>, kept |-> TRUE, raced |-> FALSE,
   response |-> NoResponse, data |-> NoServers, err |-> NoErr, atWrite |-> Unparseable,
   result |-> "", config |-> << >>, rewrite |-> << >>]

\* What a store call finds in the file: text JSON.parse rejects, an object
\* without mcpServers, or an object with it.
DocShape(f) ==
  IF ~Exists(f) THEN "missing"
  ELSE IF ~f.parseable THEN "unparseable"
  ELSE IF ~JSONparse(f).hasServers THEN "object" ELSE "servers"

\* File g holds what file f held, the entry of `name` aside: the same unrelated
\* field and the same other entries, as JSON.parse reads them.
Kept(f, g, name) ==
  \/ f = g
  \/ /\ f.parseable /\ g.parseable
     /\ JSONparse(g).other = JSONparse(f).other
     /\ JSONparse(g).hasServers = JSONparse(f).hasServers
     /\ \A m \in ServerNames \ {name} : JSONparse(g).servers[m] = JSONparse(f).servers[m]

\* What get() shows for `name` in file f.
EntryOf(f, name) ==
  IF name \in ServerNames THEN getMCPServers(f, "none").val[name] ELSE << >>

\* The trace of one stage of install(): it starts, then returns or throws.
Ran(stage, ok) ==
  <<[stage |-> stage, at |-> "start"], [stage |-> stage, at |-> IF ok THEN "ok" ELSE "throw"]>>

\* An install that restarts the desktop app whether or not the write threw.
InstallTail_KeepsGoing(serverName, serverConfig, repoDir, f, env) ==
  LET fixed == fixConfig(serverConfig, repoDir, env.bundled)
      w == writeMCPServerConfig(serverName, fixed.val, f, env.io)
      r == restartClaudeDesktop(env.execOk)
      call == <<[name |-> serverName, config |-> fixed.val]>>
  IN IF fixed.thrown
     THEN [thrown |-> TRUE, err |-> fixed.err, events |-> Ran("rewrite", FALSE),
           writeCalls |-> << >>, restarts |-> 0, io |-> "none", fault |-> "", file |-> f,
           atWrite |-> f]
     ELSE [thrown |-> w.thrown \/ r.thrown, err |-> IF w.thrown THEN w.err ELSE r.err,
           events |-> Ran("rewrite", TRUE) \o Ran("persist", ~w.thrown)
                      \o Ran("restart", ~r.thrown),
           writeCalls |-> call, restarts |-> 1, io |-> env.io, fault |-> w.fault,
           file |-> w.file, atWrite |-> w.atWrite]

\* An install that restarts the desktop app before it writes the entry.
InstallTail_RestartsFirst(serverName, serverConfig, repoDir, f, env) ==
  LET fixed == fixConfig(serverConfig, repoDir, env.bundled)
      w == writeMCPServerConfig(serverName, fixed.val, f, env.io)
      r == restartClaudeDesktop(env.execOk)
      call == <<[name |-> serverName, config |-> fixed.val]>>
  IN IF fixed.thrown
     THEN [thrown |-> TRUE, err |-> fixed.err, events |-> Ran("rewrite", FALSE),
           writeCalls |-> << >>, restarts |-> 0, io |-> "none", fault |-> "", file |-> f,
           atWrite |-> f]
     ELSE IF r.thrown
     THEN [thrown |-> TRUE, err |-> r.err,
           events |-> Ran("rewrite", TRUE) \o Ran("restart", FALSE),
           writeCalls |-> << >>, restarts |-> 1, io |-> "none", fault |-> "", file |-> f,
           atWrite |-> f]
     ELSE [thrown |-> w.thrown, err |-> w.err,
           events |-> Ran("rewrite", TRUE) \o Ran("restart", TRUE) \o Ran("persist", ~w.thrown),
           writeCalls |-> call, restarts |-> 1, io |-> env.io, fault |-> w.fault,
           file |-> w.file, atWrite |-> w.atWrite]

\* install() lines 275-278: rewrite, persist, restart.
\* [thrown, err, events, writeCalls, restarts, io, fault, file]
InstallTail(serverName, serverConfig, repoDir, f, env) ==
  LET fixed == fixConfig(serverConfig, repoDir, env.bundled)
      w == writeMCPServerConfig(serverName, fixed.val, f, env.io)
      r == restartClaudeDesktop(env.execOk)
      call == <<[name |-> serverName, config |-> fixed.val]>>
  IN IF fixed.thrown
     THEN [thrown |-> TRUE, err |-> fixed.err, events |-> Ran("rewrite", FALSE),
           writeCalls |-> << >>, restarts |-> 0, io |-> "none", fault |-> "", file |-> f,
           atWrite |-> f]
     ELSE IF w.thrown
     THEN [thrown |-> TRUE, err |-> w.err,
           events |-> Ran("rewrite", TRUE) \o Ran("persist", FALSE),
           writeCalls |-> call, restarts |-> 0, io |-> env.io, fault |-> w.fault,
           file |-> w.file, atWrite |-> w.atWrite]
     ELSE [thrown |-> r.thrown, err |-> r.err,
           events |-> Ran("rewrite", TRUE) \o Ran("persist", TRUE) \o Ran("restart", ~r.thrown),
           writeCalls |-> call, restarts |-> 1, io |-> env.io, fault |-> "", file |-> w.file,
           atWrite |-> w.atWrite]

\* An install that empties the file when it fails before line 275.
TailSkipped_Truncates(err, f) ==
  [thrown |-> TRUE, err |-> err, events |-> << >>, writeCalls |-> << >>, restarts |-> 0,
   io |-> "none", fault |-> "", file |-> Unparseable, atWrite |-> f]

\* An exception before line 275: nothing of the tail runs.
TailSkipped(err, f) ==
  [thrown |-> TRUE, err |-> err, events |-> << >>, writeCalls |-> << >>, restarts |-> 0,
   io |-> "none", fault |-> "", file |-> f, atWrite |-> f]

\* An install that reports success whatever was thrown.
Notify_AlwaysSuccess(win, thrown, err, serverName) ==
  LET okNote == [type |-> "success", title |-> "MCP Server Installation Success",
                 tmpl |-> "installed", arg |-> serverName]
      inTry == sendToWindow(win, okNote)
  IN IF win = "none"
     THEN [events |-> << >>, notes |-> << >>, rejected |-> FALSE]
     ELSE [events |-> Ran("notify-success", ~inTry.thrown), notes |-> inTry.sent,
           rejected |-> inTry.thrown]

\* A catch block that shows the text of the error it caught.
Notify_LeaksCause(win, thrown, err, serverName) ==
  LET title == "MCP Server Installation Error"
      okNote == [type |-> "success", title |-> "MCP Server Installation Success",
                 tmpl |-> "installed", arg |-> serverName]
      unknownNote == [type |-> "error", title |-> title, tmpl |-> "unknown", arg |-> err.cause]
      errNote == IF err.isApp
                 THEN [type |-> "error", title |-> title, tmpl |-> err.tmpl, arg |-> err.cause]
                 ELSE unknownNote
      inTry == sendToWindow(win, okNote)
      inCatch == sendToWindow(win, IF thrown THEN errNote ELSE unknownNote)
      catchEvents == Ran("notify-error", ~inCatch.thrown)
  IN IF win = "none"
     THEN [events |-> << >>, notes |-> << >>, rejected |-> FALSE]
     ELSE IF thrown
     THEN [events |-> catchEvents, notes |-> inCatch.sent, rejected |-> inCatch.thrown]
     ELSE IF ~inTry.thrown
     THEN [events |-> Ran("notify-success", TRUE), notes |-> inTry.sent,
           rejected |-> FALSE]
     ELSE [events |-> Ran("notify-success", FALSE) \o catchEvents,
           notes |-> inCatch.sent, rejected |-> inCatch.thrown]

\* install() lines 280-308: the success notification at the end of the try
\* block, and the catch block. serverName = "" stands for undefined.
\* [events, notes, rejected]
Notify(win, thrown, err, serverName) ==
  LET title == "MCP Server Installation Error"
      okNote == [type |-> "success", title |-> "MCP Server Installation Success",
                 tmpl |-> "installed", arg |-> serverName]
      unknownNote == [type |-> "error", title |-> title, tmpl |-> "unknown",
                      arg |-> IF serverName = "" THEN "unknown" ELSE serverName]
      errNote == IF err.isApp
                 THEN [type |-> "error", title |-> title, tmpl |-> err.tmpl, arg |-> err.arg]
                 ELSE unknownNote
      inTry == sendToWindow(win, okNote)
      inCatch == sendToWindow(win, IF thrown THEN errNote ELSE unknownNote)
      catchEvents == Ran("notify-error", ~inCatch.thrown)
  IN IF win = "none"
     THEN [events |-> << >>, notes |-> << >>, rejected |-> FALSE]
     ELSE IF thrown
     THEN [events |-> catchEvents, notes |-> inCatch.sent, rejected |-> inCatch.thrown]
     ELSE IF ~inTry.thrown
     THEN [events |-> Ran("notify-success", TRUE), notes |-> inTry.sent,
           rejected |-> FALSE]
     ELSE [events |-> Ran("notify-success", FALSE) \o catchEvents,
           notes |-> inCatch.sent, rejected |-> inCatch.thrown]

Succeeded(notes) == \E k \in DOMAIN notes : notes[k].type = "success"

\* The bag B with every element k replaced by f[k].
RECURSIVE SumCopies(_, _)
SumCopies(S, B) ==
  IF S = {} THEN 0
  ELSE LET k == CHOOSE x \in S : TRUE IN CopiesIn(k, B) + SumCopies(S \ {k}, B)

Remap(B, f) ==
  LET img == {f[k] : k \in BagToSet(B)}
  IN [k2 \in img |-> SumCopies({k \in BagToSet(B) : f[k] = k2}, B)]

\* An install() awaiting its clone: its url, the window it was handed, and
\* (history) whether an install of another server succeeded meanwhile.
Awaiting(url, win) == [url |-> url, win |-> win, raced |-> FALSE]

\* install() returning (or rejecting): the state it leaves. `rest` is the bag
\* of the other installs in flight.
Settle(url, win, serverName, preEvents, cloneCalls, tail, raced, rest) ==
  \E t \in {tail} : \E n \in {Notify(win, t.thrown, t.err, serverName)} :
    LET cut == t.file = Unparseable /\ file # Unparseable
        mark == [k \in BagToSet(rest) |->
                   IF ServerNameOf(k.url) # serverName THEN [k EXCEPT !.raced = TRUE] ELSE k]
    IN /\ file' = t.file
       /\ last' = [NoReport EXCEPT
                     !.op = "install", !.url = url, !.win = win,
                     !.destroyed = IsDestroyed(win), !.name = serverName,
                     !.events = preEvents \o t.events \o n.events,
                     !.cloneCalls = cloneCalls, !.writeCalls = t.writeCalls,
                     !.restarts = t.restarts, !.notes = n.notes, !.rejected = n.rejected,
                     !.io = t.io,
                     !.docBefore = IF t.writeCalls = << >> THEN "" ELSE DocShape(file),
                     !.fault = t.fault, !.entryBefore = EntryOf(file, serverName),
                     !.entryAfter = EntryOf(t.file, serverName),
                     !.kept = Kept(file, t.file, serverName), !.raced = raced,
                     !.err = t.err, !.atWrite = t.atWrite]
       /\ installed' = (IF cut THEN {} ELSE installed)
                         \cup (IF Succeeded(n.notes) THEN {serverName} ELSE {})
       /\ inflight' = IF Succeeded(n.notes) THEN Remap(rest, mark) ELSE rest
       /\ \E d \in Delivered(watcher, changed,
                             IF t.writeCalls # << >> /\ t.fault \in {"", "write"} THEN "write" ELSE "none") :
            watcher' = d[1] /\ changed' = d[2]

\* handleOpenUrl(url) -> install(url, mainWindow), up to the first await (lines
\* 259-272) or, without a git source, to the end.
HandleOpenUrl(url, env) ==
  LET d == parseInstallConfigUrl(url)
      serverName == ServerNameOf(url)
      git == url.git[1]
      repoName == LastSegment(git.repo_url)
      win == IF mainWindow = "undefined" THEN "none" ELSE "current"
  IN IF d.thrown
     THEN Settle(url, win, "", Ran("decode", FALSE), << >>,
                 TailSkipped(d.err, file), FALSE, inflight)
     ELSE IF url.git = << >>
     THEN Settle(url, win, serverName, Ran("decode", TRUE), << >>,
                 InstallTail(serverName, url.config[1].spec, "", file, env), FALSE, inflight)
     ELSE IF repoName = ""
     THEN Settle(url, win, serverName,
                 Ran("decode", TRUE) \o Ran("fetch", FALSE), << >>,
                 TailSkipped(PlainError("no repository name"), file), FALSE, inflight)
     ELSE /\ BagCardinality(inflight) < MaxInstalls
          /\ inflight' = inflight (+) SetToBag({Awaiting(url, win)})
          /\ last' = NoReport
          /\ UNCHANGED <<file, installed, watcher, changed>>

\* The clone() promise of the install k settles and install() runs to its end
\* (lines 272-308).
CloneSettles(k, cloneOk, env) ==
  LET url == k.url
      serverName == ServerNameOf(url)
      git == url.git[1]
      repoName == LastSegment(git.repo_url)
      c == gitClone(git.repo_url, git.commit, repoName, cloneOk)
      pre == Ran("decode", TRUE)
      rest == inflight (-) SetToBag({k})
  IN /\ BagIn(k, inflight)
     /\ IF c.thrown
        THEN Settle(url, k.win, serverName, pre \o Ran("fetch", FALSE),
                    <<CloneCall(git.repo_url, git.commit, repoName)>>,
                    TailSkipped(c.err, file), k.raced, rest)
        ELSE Settle(url, k.win, serverName, pre \o Ran("fetch", TRUE),
                    <<CloneCall(git.repo_url, git.commit, repoName)>>,
                    InstallTail(serverName, url.config[1].spec, c.val, file, env),
                    k.raced, rest)

-----------------------------------------------------------------------------
\* main.ts (part_004): the window and the IPC handlers.

\* createWindow(), on 'ready' and on 'activate' when no window is open:
\* assigns mainWindow and registers the IPC handlers. The installs in flight
\* keep the window they were handed.
CreateWindow ==
  LET age == [k \in BagToSet(inflight) |->
                IF k.win = "current" THEN [k EXCEPT !.win = "stale"] ELSE k]
      w == watchClaudeDesktopConfig(file)
  IN /\ mainWindow # "open"
     /\ mainWindow' = "open"
     /\ inflight' = Remap(inflight, age)
     /\ watcher' = w.watcher
     /\ changed' = FALSE
     /\ last' = [NoReport EXCEPT !.op = "watch", !.docBefore = DocShape(file),
                                 !.result = IF w.thrown THEN "threw" ELSE w.result]
     /\ UNCHANGED <<file, installed>>

\* The window's 'close' event: `if (unwatch) unwatch()`, unregisterIpcHandlers;
\* the window is destroyed, the variable mainWindow is left as it is.
CloseWindow ==
  /\ mainWindow = "open"
  /\ mainWindow' = "closed"
  /\ watcher' = IF watcher = "off" THEN "off" ELSE unwatch(watcher).watcher
  /\ changed' = FALSE
  /\ last' = NoReport
  /\ UNCHANGED <<file, inflight, installed>>

HandlersRegistered == mainWindow = "open"

\* ipcMain.handle("claude:get-mcp-servers", createIpcHandler(getMCPServers))
IpcGetServers(io) ==
  \E r \in {getMCPServers(file, io)} :
     /\ HandlersRegistered
     /\ last' = [NoReport EXCEPT !.op = "get", !.io = io, !.docBefore = DocShape(file),
                                 !.response = createIpcHandler(r), !.data = r.val,
                                 !.err = r.err]
     /\ UNCHANGED <<file, mainWindow, inflight, installed, watcher, changed>>

\* ipcMain.handle("claude:delete-mcp-server", createIpcHandler(deleteMCPServer))
IpcDeleteServer(serverName, io) ==
  \E r \in {deleteMCPServer(serverName, file, io)} :
  LET cut == r.file = Unparseable /\ file # Unparseable
  IN /\ HandlersRegistered
     /\ file' = r.file
     /\ last' = [NoReport EXCEPT !.op = "delete", !.name = serverName, !.io = io,
                                 !.docBefore = DocShape(file), !.fault = r.fault,
                                 !.entryBefore = EntryOf(file, serverName),
                                 !.entryAfter = EntryOf(r.file, serverName),
                                 !.kept = Kept(file, r.file, serverName),
                                 !.response = createIpcHandler(r), !.err = r.err,
                                 !.atWrite = r.atWrite]
     /\ installed' = IF cut THEN {} ELSE IF r.thrown THEN installed ELSE installed \ {serverName}
     /\ \E d \in Delivered(watcher, changed, IF r.fault \in {"", "write"} THEN "write" ELSE "none") :
          watcher' = d[1] /\ changed' = d[2]
     /\ UNCHANGED <<mainWindow, inflight>>

\* deleteMCPServer(undefined): destructuring `{ serverName }` throws a
\* TypeError before the function's own try block is entered.
deleteMCPServerWithoutArgs ==
  [thrown |-> TRUE, err |-> PlainError("TypeError: Cannot destructure property 'serverName'")]

\* ipcRenderer.invoke("claude:delete-mcp-server") with no argument.
IpcDeleteWithoutArgs ==
  \E r \in {deleteMCPServerWithoutArgs} :
     /\ HandlersRegistered
     /\ last' = [NoReport EXCEPT !.op = "delete", !.io = "noargs", !.fault = "args",
                                 !.docBefore = DocShape(file),
                                 !.response = createIpcHandler(r), !.err = r.err]
     /\ UNCHANGED <<file, mainWindow, inflight, installed, watcher, changed>>

\* The watcher's callback runs for a queued 'change' event. The window it
\* sends to is the open one: closing the window closes the watcher.
WatchCallback(io) ==
  \E r \in {OnChange(file, io, "current", watcher)} :
     /\ changed /\ watcher # "off"
     /\ changed' = FALSE
     /\ watcher' = r.watcher
     /\ last' = [NoReport EXCEPT !.op = "change", !.io = io, !.docBefore = DocShape(file),
                                 !.notes = r.notes, !.config = r.config, !.win = "current"]
     /\ UNCHANGED <<file, mainWindow, inflight, installed>>

\* Another process modifies the file.
ExternalWrite(kind) ==
  /\ kind = "remove" => Exists(file)
  /\ file' = ExternalEdit(file, kind)
  /\ \E d \in Delivered(watcher, changed, kind) : watcher' = d[1] /\ changed' = d[2]
  /\ installed' = IF ExternalEdit(file, kind).parseable THEN installed ELSE {}
  /\ last' = [NoReport EXCEPT !.op = "external", !.result = kind, !.docBefore = DocShape(file)]
  /\ UNCHANGED <<mainWindow, inflight>>

-----------------------------------------------------------------------------
\* The program.

Init ==
  /\ file \in InitFiles
  /\ mainWindow = "undefined"
  /\ inflight = EmptyBag
  /\ installed = {}
  /\ watcher = "off"
  /\ changed = FALSE
  /\ shown = NothingShown
  /\ last = NoReport

\* Whether install(url) reaches line 275 without awaiting.
RunsTail(url) == ~parseInstallConfigUrl(url).thrown /\ url.git = << >>

\* `last` is read between two steps of the event loop: a handler starts once
\* the record of the previous one has been dropped.
Idle == last = NoReport

\* app.on("open-url") / app.on("second-instance")
OpenUrl ==
  /\ Idle
  /\ \E url \in Urls :
       \E env \in IF RunsTail(url) THEN Envs ELSE {EnvOk} :
         /\ HandleOpenUrl(url, env)
         /\ UNCHANGED mainWindow

CloneDone ==
  /\ Idle
  /\ \E k \in BagToSet(inflight) :
       \/ CloneSettles(k, FALSE, EnvOk) /\ UNCHANGED mainWindow
       \/ \E env \in Envs : CloneSettles(k, TRUE, env) /\ UNCHANGED mainWindow

OpenWindow == Idle /\ CreateWindow

WindowClosed == Idle /\ CloseWindow

GetServers == Idle /\ \E io \in {"none", "read"} : IpcGetServers(io)

DeleteServer ==
  /\ Idle
  /\ \E serverName \in ServerNames, io \in {"none", "read", "edit"} :
       IpcDeleteServer(serverName, io)

\* The record of the completed handler is dropped; nothing of the program changes.
Forget ==
  /\ ~Idle
  /\ last' = NoReport
  /\ UNCHANGED <<file, mainWindow, inflight, installed, watcher, changed, shown>>

\* fs.watch delivers a 'change' event.
FileChanged == Idle /\ \E io \in {"none", "read"} : WatchCallback(io)

\* Another process writes or removes the file.
External == Idle /\ \E kind \in ExternalKinds : ExternalWrite(kind)

\* The step is taken without recording what the window is told.
Unobserved == UNCHANGED shown

\* The step is taken and what it tells the window is recorded: a subscription
\* that starts or ends forgets the record, an event on 'claude:config-changed'
\* brings the window up to the file, a write that changes the content leaves
\* it behind.
Observed ==
  shown' = IF watcher = "off" \/ watcher' = "off" THEN NothingShown
           ELSE IF last'.op = "change" /\ last'.config # << >> THEN "current"
           ELSE Modified(shown, file, file')

Next ==
  \/ OpenUrl /\ Unobserved
  \/ CloneDone /\ Unobserved
  \/ OpenWindow /\ Unobserved
  \/ WindowClosed /\ Unobserved
  \/ GetServers /\ Unobserved
  \/ DeleteServer /\ Unobserved
  \/ FileChanged /\ Unobserved
  \/ Forget

\* The app alone with the file: every write of the file is the app's own, but
\* for the edit ReadModifyWrite may meet between its read and its write.
Spec == Init /\ [][Next]_vars

\* The renderer invokes the delete channel without its argument.
DeleteWithoutArgs == Idle /\ IpcDeleteWithoutArgs

\* open-url while no other install() is awaiting its clone.
OpenUrlAlone == inflight = EmptyBag /\ OpenUrl

\* The app sharing the file with other processes, which write and remove it
\* at any time, and serving a renderer that may leave out the argument of an
\* invoke; installs are taken one at a time.
NextShared ==
  \/ OpenUrlAlone /\ Observed
  \/ CloneDone /\ Observed
  \/ OpenWindow /\ Observed
  \/ WindowClosed /\ Observed
  \/ GetServers /\ Observed
  \/ DeleteServer /\ Observed
  \/ DeleteWithoutArgs /\ Observed
  \/ FileChanged /\ Observed
  \/ External /\ Observed
  \/ Forget

SpecShared == Init /\ [][NextShared]_vars

-----------------------------------------------------------------------------
\* Properties of install(). They are stated on `last`, the record of the
\* install() invocation the previous step completed.

InstallDone == last.op = "install"

Threw(stage) == \E k \in DOMAIN last.events : last.events[k] = [stage |-> stage, at |-> "throw"]

Returned(stage) == \E k \in DOMAIN last.events : last.events[k] = [stage |-> stage, at |-> "ok"]

\* The window install() was handed exists and is not destroyed.
WindowUsable == last.win # "none" /\ ~last.destroyed

ErrorNotes == \A k \in DOMAIN last.notes : last.notes[k].type = "error"

\* The order of the stages (spec section 4.6); the failure notification comes last.
StageRank ==
  [decode |-> 1, fetch |-> 2, rewrite |-> 3, persist |-> 4, restart |-> 5] @@
  ("notify-success" :> 6) @@ ("notify-error" :> 7)

WorkStages == {"decode", "fetch", "rewrite", "persist", "restart"}

\* After the stage at position k threw, only the failure notification follows,
\* and the calls of the later stages were not made.
NothingAfterFailure(k) ==
  LET stage == last.events[k].stage
  IN /\ \A j \in DOMAIN last.events : j > k => last.events[j].stage = "notify-error"
     /\ stage = "decode" => last.cloneCalls = << >>
     /\ stage \in {"decode", "fetch", "rewrite"} => last.writeCalls = << >>
     /\ stage \in {"decode", "fetch", "rewrite", "persist"} => last.restarts = 0
     /\ ~Succeeded(last.notes)

FailedAt(k) == last.events[k].at = "throw" /\ last.events[k].stage \in WorkStages

\* C1 (as stated): every install() invocation emits exactly one 'notify' event.
C1_ExactlyOneNotify == InstallDone => Len(last.notes) = 1

\* C1 (amended): an install() invocation emits at most one 'notify' event; it
\* emits exactly one when the window it was handed exists and is not destroyed
\* when the notification is sent, and none otherwise.
C1_OneNotifyIffWindowUsable ==
  InstallDone => /\ Len(last.notes) <= 1
                 /\ Len(last.notes) = 1 <=> WindowUsable

\* An install handed no window (open-url before 'ready') ran every stage and
\* notified nobody.
C1_Witness ==
  /\ InstallDone /\ last.win = "none"
  /\ Returned("restart") /\ last.notes = << >>

\* C2 (as stated): install() never rejects to its caller: whatever is raised
\* inside it is caught inside it, and install() completes normally.
C2_NeverRejects == InstallDone => ~last.rejected

\* The window was closed while the clone was awaited; the clone then failed
\* and the send in the catch block threw: install() rejected.
C2_Witness ==
  /\ InstallDone /\ last.rejected /\ last.destroyed
  /\ Threw("fetch") /\ Threw("notify-error") /\ last.notes = << >>

\* C3 (as stated): when a stage fails no later stage runs, and the next and
\* only event is the failure notification.
C3_FailureThenNotification ==
  InstallDone =>
    \A k \in DOMAIN last.events :
      FailedAt(k) => /\ NothingAfterFailure(k)
                     /\ Len(last.notes) = 1 /\ ErrorNotes
                     /\ k + 2 = Len(last.events) /\ last.events[k + 2].at = "ok"

\* C3 (amended): when a stage fails no later stage runs; the only event that
\* can follow is the failure notification, which is emitted when the window
\* install() was handed exists and is not destroyed, and not otherwise.
C3_NoStageAfterFailure ==
  InstallDone =>
    \A k \in DOMAIN last.events :
      FailedAt(k) => /\ NothingAfterFailure(k)
                     /\ Len(last.notes) <= 1 /\ ErrorNotes
                     /\ Len(last.notes) = 1 <=> WindowUsable

\* The config write of an install threw; the failure was notified.
C3_Witness ==
  /\ InstallDone /\ Threw("persist") /\ last.cloneCalls # << >>
  /\ Len(last.notes) = 1 /\ last.notes[1].type = "error"

\* C4: the stages of one install() run in the order decode, clone (only with
\* a git source), rewrite, config write, restart, success notification; a
\* stage starts only when the previous one has finished; the success
\* notification is sent only after restart has returned.
C4_StageOrder ==
  InstallDone =>
    LET ev == last.events
    IN /\ Len(ev) % 2 = 0
       /\ \A k \in DOMAIN ev :
            k % 2 = 1 => /\ ev[k].at = "start"
                         /\ ev[k + 1].stage = ev[k].stage
                         /\ ev[k + 1].at \in {"ok", "throw"}
       /\ \A j, k \in DOMAIN ev :
            j < k /\ ev[j].stage # ev[k].stage => StageRank[ev[j].stage] < StageRank[ev[k].stage]
       /\ ev # << >> /\ ev[1].stage = "decode"
       /\ (\E k \in DOMAIN ev : ev[k].stage = "fetch") => last.url.git # << >>
       /\ (\E k \in DOMAIN ev : ev[k].stage = "rewrite")
            => /\ Returned("decode")
               /\ last.url.git # << >> => Returned("fetch")
       /\ (\E k \in DOMAIN ev : ev[k].stage = "persist") => Returned("rewrite")
       /\ (\E k \in DOMAIN ev : ev[k].stage = "restart") => Returned("persist")
       /\ (\E k \in DOMAIN ev : ev[k].stage = "notify-success") => Returned("restart")
       /\ Succeeded(last.notes) => Returned("restart")

\* An install with a git source ran all six stages.
C4_Witness ==
  /\ InstallDone /\ last.url.git # << >>
  /\ Len(last.events) = 12 /\ Returned("fetch") /\ Returned("notify-success")

\* The config write returned and the restart threw.
WroteThenRestartFailed == InstallDone /\ Returned("persist") /\ Threw("restart")

\* C5 (as stated): if the config write succeeds and the restart fails, the
\* install emits one 'error' notification and no 'success' notification, and
\* the file still holds the entry just written.
C5_OneErrorAfterRestartFailure ==
  WroteThenRestartFailed =>
    /\ Len(last.notes) = 1 /\ ErrorNotes
    /\ last.entryAfter = <<last.writeCalls[1].config>>

\* C5 (amended): if the config write succeeds and the restart fails, the
\* install emits no 'success' notification and at most one notification, of
\* type 'error' (exactly one when its window exists and is not destroyed), and
\* the file still holds the entry just written.
C5_NoSuccessAfterRestartFailure ==
  WroteThenRestartFailed =>
    /\ ~Succeeded(last.notes) /\ ErrorNotes
    /\ Len(last.notes) <= 1
    /\ Len(last.notes) = 1 <=> WindowUsable
    /\ last.entryAfter = <<last.writeCalls[1].config>>
    /\ EntryOf(file, last.name) = last.entryAfter

\* Restart failed after the write: one error note, the entry is in the file.
C5_Witness ==
  /\ WroteThenRestartFailed
  /\ Len(last.notes) = 1 /\ last.notes[1].type = "error"
  /\ EntryOf(file, last.name) = <<last.writeCalls[1].config>>

-----------------------------------------------------------------------------
\* Properties of the configuration store.

\* C7 (as stated): on every parseable document, the bootstrapped empty object
\* included, set(x, spec) succeeds and a following get() shows spec under x.
C7_SetThenGet ==
  (InstallDone /\ last.writeCalls # << >> /\ last.docBefore \in {"object", "servers"}
     /\ last.io = "none")
    => /\ Returned("persist")
       /\ last.entryAfter = <<last.writeCalls[1].config>>

\* The write of an install on the bootstrapped "{}" threw on the assignment
\* to jsonConfig.mcpServers[serverName].
C7_Witness ==
  /\ InstallDone /\ last.docBefore = "object" /\ last.io = "none"
  /\ Threw("persist") /\ last.fault = "type"
  /\ file = BootstrapFile /\ last.entryAfter = << >>

\* A step in which a set or a delete returned without throwing.
StoreCallReturned ==
  \/ last.op = "install" /\ Returned("persist")
  \/ last.op = "delete" /\ last.response.success

\* C8: a successful set(name, spec) or delete(name) leaves every other
\* top-level field with the value it had and every entry under another name
\* unchanged; so does, by induction, every sequence of such calls.
C8_Frame ==
  [][(StoreCallReturned' /\ file.parseable) =>
       /\ file'.parseable
       /\ JSONparse(file').other = JSONparse(file).other
       /\ \A m \in ServerNames \ {last'.name} :
            JSONparse(file').servers[m] = JSONparse(file).servers[m]]_vars

\* A delete removed an entry from a file that holds another entry and an
\* unrelated field.
C8_Witness ==
  /\ last.op = "delete" /\ last.response.success /\ last.entryBefore # << >>
  /\ file.parseable /\ JSONparse(file).other = "1"
  /\ \E m \in ServerNames \ {last.name} : JSONparse(file).servers[m] # << >>

\* C9 (as stated): delete(name) on a parseable document with no entry for
\* name, a document without mcpServers included, does not raise and changes
\* nothing.
C9_DeleteAbsentIsNoOp ==
  (last.op = "delete" /\ last.docBefore \in {"object", "servers"}
     /\ last.entryBefore = << >> /\ last.io = "none")
    => /\ last.response.success
       /\ last.kept /\ last.entryAfter = << >>

\* A delete on the bootstrapped "{}" threw on `delete jsonConfig.mcpServers[...]`.
C9_Witness ==
  /\ last.op = "delete" /\ last.docBefore = "object" /\ last.io = "none"
  /\ ~last.response.success /\ last.fault = "type"
  /\ last.response.error = <<"delete", last.name>>

\* The second of two overlapping installs of different servers has just
\* reported success, the first having done so while the second awaited its
\* clone, and neither entry was deleted since.
BothSucceeded ==
  /\ InstallDone /\ last.raced /\ Succeeded(last.notes)
  /\ {"spotify", "arxiv"} \subseteq installed

LostUpdate == \E n \in installed : EntryOf(file, n) = << >>

\* C10 (as stated): two overlapping install() calls of one process, for two
\* server names, both report success while the document holds one entry only.
C10_LostUpdate == BothSucceeded => LostUpdate

\* C10 (amended): the read-modify-write of the store is one synchronous call,
\* so installs of one process cannot interleave inside it: every server whose
\* install reported success, and whose entry was not deleted since, has its
\* entry in the document.
C10_NoLostUpdate == ~LostUpdate

\* Two overlapping installs both succeeded and both entries are in the file.
C10_Witness ==
  /\ BothSucceeded
  /\ EntryOf(file, "spotify") # << >> /\ EntryOf(file, "arxiv") # << >>

-----------------------------------------------------------------------------
\* The store and other processes.

\* A set (through install) or a delete whose read found a document with
\* mcpServers, and between whose read and write another process rewrote the file.
EditedInTheMiddle ==
  /\ last.op \in {"install", "delete"}
  /\ last.io = "edit" /\ last.docBefore = "servers"

\* C11: an edit of the file by another process that lands between the read
\* and the write of a set or delete call is overwritten without error: the
\* call succeeds, and the document it leaves holds what the call read plus its
\* own change, not the edit.
C11_EditOverwritten ==
  EditedInTheMiddle =>
    /\ last.fault = "" /\ StoreCallReturned
    /\ last.atWrite.parseable /\ file.parseable
    /\ JSONparse(file).other # JSONparse(last.atWrite).other
    /\ last.kept

\* A delete overwrote the field another process had just set to 2.0.
C11_Witness ==
  /\ EditedInTheMiddle /\ last.op = "delete" /\ last.response.success
  /\ last.atWrite.other = "2.0" /\ JSONparse(file).other = "1"


-----------------------------------------------------------------------------
\* Properties of the watcher. `last` with op "change" is the record of one run
\* of the watcher's callback, with op "watch" of one call of
\* watchClaudeDesktopConfig, with op "external" of a write by another process.

CallbackRan == last.op = "change"

CallbackFailed == CallbackRan /\ last.config = << >>

C13_NotifyOnlyFromInstall == last.notes # << >> => last.op = "install"

\* The watcher's callback sent a 'notify' event.
C13_Witness ==
  /\ CallbackFailed
  /\ Len(last.notes) = 1 /\ last.notes[1] = ConfigErrorNote

WatchedMissing == last.op = "watch" /\ last.docBefore = "missing"

\* C15: when the file does not exist, watchClaudeDesktopConfig raises nothing;
\* it returns false and subscribes to nothing, and the window is created.
C15_WatchMissingReturnsFalse ==
  WatchedMissing =>
    /\ last.result = "false"
    /\ watcher = "off" /\ ~changed
    /\ mainWindow = "open"

\* C15 (as the specification states it): watching a missing file fails with an error.
C15_WatchMissingFails == WatchedMissing => last.result = "threw"

C15_Witness == WatchedMissing /\ last.result = "false" /\ mainWindow = "open"

-----------------------------------------------------------------------------
\* Properties of the decoder, read off the install() that called it.

DecodeFailed == InstallDone /\ Threw("decode")

ValidationError(err) == err.isApp /\ err.tmpl = "validate"

\* C16: a payload that parses and has a `config` object is decoded exactly
\* when `config` has one entry; with none or with two or more, decoding fails
\* with the validation error.
C16_ExactlyOneServer ==
  (InstallDone /\ last.url.json /\ last.url.hasConfig) =>
     /\ Returned("decode") <=> Len(last.url.config) = 1
     /\ Threw("decode") <=> Len(last.url.config) # 1
     /\ Threw("decode") => ValidationError(last.err)

C16_Witness ==
  /\ DecodeFailed /\ last.url.hasConfig /\ last.url.config = << >>
  /\ ValidationError(last.err) /\ last.err.cause = "Error: number of servers"

\* The shape of MCPServerConfig (claude.ts 28-32).
HasShape(spec) == DOMAIN spec = {"command", "args", "env"}

\* C17 (as the specification states it): a descriptor that was decoded has
\* the expected shape.
C17_DecodedHasShape ==
  (InstallDone /\ Returned("decode")) => HasShape(last.url.config[1].spec)

\* A payload without `args` was decoded; the rewrite stage threw on it.
C17_Witness ==
  /\ InstallDone /\ Returned("decode") /\ ~HasShape(last.url.config[1].spec)
  /\ Threw("rewrite") /\ ~last.err.isApp

\* C18: the decoder returns or throws, and what it throws is an AppError with
\* the validation message, whatever made it fail.
C18_DecodeTotal ==
  InstallDone =>
    /\ Returned("decode") \/ Threw("decode")
    /\ Threw("decode") => ValidationError(last.err)

C18_Witness ==
  /\ DecodeFailed /\ ~last.url.json
  /\ ValidationError(last.err) /\ last.err.cause = "SyntaxError"

-----------------------------------------------------------------------------
\* fixConfig on its own: every list of up to MaxArgs tokens, with and without
\* a cloned repository, with and without the bundled uv.

MaxArgs == 4

ArgTokens == {"uv", "uvx", "--directory", "{local_cloned_repository_path}", "run"}

Commands == {"npx", "uv", "uvx"}

\* What existsSync finds of the binaries shipped with the app.
BundledSets == {Binaries, {"uv"}, {"uvx"}}

ArgLists == UNION {[1..n -> ArgTokens] : n \in 0..MaxArgs}

\* repoDir: undefined, or the directory gitClone returns.
RepoDirs == {"", PathJoin(IOD_HOME, "spotify-mcp")}

InitRewrite ==
  /\ file = BootstrapFile
  /\ mainWindow = "undefined"
  /\ inflight = EmptyBag
  /\ installed = {}
  /\ watcher = "off"
  /\ changed = FALSE
  /\ shown = NothingShown
  /\ \E command \in Commands, args \in ArgLists, repoDir \in RepoDirs :
       last = [NoReport EXCEPT
                 !.op = "args",
                 !.rewrite = <<[config |-> [command |-> command, args |-> args, env |-> {}],
                                repoDir |-> repoDir]>>]

\* fixConfig(config, repoDir)
Rewrite ==
  /\ last.op = "args"
  /\ \E bundled \in BundledSets :
       last' = [last EXCEPT
                  !.op = "fixConfig",
                  !.rewrite = <<[config |-> last.rewrite[1].config,
                                 repoDir |-> last.rewrite[1].repoDir,
                                 bundled |-> bundled,
                                 fixed |-> fixConfig(last.rewrite[1].config,
                                                     last.rewrite[1].repoDir, bundled)]>>]
  /\ UNCHANGED <<file, mainWindow, inflight, installed, watcher, changed, shown>>

NextRewrite == Rewrite

SpecRewrite == InitRewrite /\ [][NextRewrite]_vars

Rewritten == last.op = "fixConfig"

\* The positions k of args where "uv" is immediately followed by "--directory"
\* and a further token.
UvDirectoryAt(args) ==
  {k \in DOMAIN args : /\ k + 2 <= Len(args)
                       /\ args[k] = "uv" /\ args[k + 1] = "--directory"}

\* At position j of `out`: the resolved uv, --python, 3.12, --directory, P.
PinnedAt(out, j, uvPath, P) ==
  /\ j + 4 <= Len(out)
  /\ out[j] = uvPath
  /\ out[j + 1] = "--python" /\ out[j + 2] = "3.12"
  /\ out[j + 3] = "--directory" /\ out[j + 4] = P

-----------------------------------------------------------------------------
\* uv --directory without a git source.

\* args has "uv" and, at or after it, "--directory".
UsesUvDirectory(spec) ==
  /\ "args" \in DOMAIN spec
  /\ IndexOfFrom(spec.args, "uv", 1) # 0
  /\ IndexOfFrom(spec.args, "--directory", IndexOfFrom(spec.args, "uv", 1)) # 0

\* An install() whose descriptor was decoded, uses uv --directory and names no
\* git source.
UvDirectoryNoSource ==
  /\ InstallDone /\ Returned("decode")
  /\ last.url.git = << >> /\ UsesUvDirectory(last.url.config[1].spec)

\* C20: with uv --directory and no git source the rewrite fails; the install
\* clones nothing, writes nothing to the configuration file, does not call
\* restart and reports no success; it sends one failure notification when the
\* window it was handed exists and is not destroyed, and none otherwise.
C20_RewriteFailsWithoutSource ==
  UvDirectoryNoSource =>
    /\ Threw("rewrite") /\ last.err = PlainError("uv --directory without repoDir")
    /\ last.cloneCalls = << >> /\ last.writeCalls = << >> /\ last.restarts = 0
    /\ last.kept /\ last.entryAfter = last.entryBefore
    /\ Len(last.notes) <= 1 /\ ErrorNotes
    /\ Len(last.notes) = 1 <=> WindowUsable

\* C20 (as the specification states it): the install writes nothing, does not
\* restart, and emits a failure notification.
C20_RewriteFailureNotified ==
  UvDirectoryNoSource =>
    /\ Threw("rewrite")
    /\ last.writeCalls = << >> /\ last.restarts = 0
    /\ Len(last.notes) = 1 /\ ErrorNotes

C20_Witness ==
  /\ UvDirectoryNoSource /\ Threw("rewrite") /\ WindowUsable
  /\ last.writeCalls = << >> /\ last.restarts = 0
  /\ Len(last.notes) = 1 /\ last.notes[1].tmpl = "unknown"

-----------------------------------------------------------------------------
\* The bundled binaries.

\* The position of args that updateUVArgs overwrites with repoDir (0: none).
DirectoryArgAt(args) ==
  LET uvIndex == IndexOfFrom(args, "uv", 1)
      directoryFlagIndex == IF uvIndex = 0 THEN 0 ELSE IndexOfFrom(args, "--directory", uvIndex)
  IN IF directoryFlagIndex = 0 THEN 0 ELSE directoryFlagIndex + 1

\* Where the token at position k of args stands in the rewritten args.
Shifted(args, k) ==
  IF IndexOfFrom(args, "uv", 1) # 0 /\ k > IndexOfFrom(args, "uv", 1) THEN k + 2 ELSE k

\* The positions of args that name a bundled binary and are kept by updateUVArgs.
LauncherAt(args) == {k \in DOMAIN args : args[k] \in Binaries /\ k # DirectoryArgAt(args)}

\* The bundled binaries the config names.
Named(config) ==
  ({config.command} \cap Binaries) \cup {config.args[k] : k \in LauncherAt(config.args)}

\* C21: when fixConfig returns, the command and every element of args that
\* named a bundled binary is the path resolveBinaryPath gives for it, every
\* binary named was found on disk, and no bare "uv" or "uvx" is left; when a
\* binary the config names is not on disk, fixConfig throws and returns nothing.
C21_BinariesReplaced ==
  Rewritten =>
    LET r == last.rewrite[1]
        args == r.config.args
        out == r.fixed.val
    IN /\ ~r.fixed.thrown =>
            /\ Named(r.config) \subseteq r.bundled
            /\ out.command \notin Binaries
            /\ \A j \in DOMAIN out.args : out.args[j] \notin Binaries
            /\ r.config.command \in Binaries =>
                 out.command = PathJoin("Resources/arm64", r.config.command)
            /\ \A k \in LauncherAt(args) :
                 out.args[Shifted(args, k)] = PathJoin("Resources/arm64", args[k])
       /\ ~(Named(r.config) \subseteq r.bundled) =>
            (r.fixed.thrown /\ r.fixed.val = NoConfig)

\* uv as the command and uvx among the args, both bundled.
C21_Witness ==
  /\ Rewritten /\ ~last.rewrite[1].fixed.thrown
  /\ last.rewrite[1].config.command = "uv"
  /\ last.rewrite[1].config.args = <<"run", "uvx", "uv", "run">>
  /\ last.rewrite[1].fixed.val.command = "Resources/arm64/uv"
  /\ last.rewrite[1].fixed.val.args =
       <<"run", "Resources/arm64/uvx", "Resources/arm64/uv", "--python", "3.12", "run">>

MissingBinaryNotified ==
  /\ InstallDone /\ Threw("rewrite")
  /\ last.err = PlainError("binary not found") /\ Len(last.notes) = 1

\* C22 (as the specification states it): the notification of an install that
\* failed for a missing bundled binary differs from the one the same install
\* would send for uv --directory without a repository, and from the one for
\* an error of no known kind.
C22_MissingBinaryDistinct ==
  MissingBinaryNotified =>
    /\ last.notes #
         Notify(last.win, TRUE, PlainError("uv --directory without repoDir"), last.name).notes
    /\ last.notes # Notify(last.win, TRUE, PlainError("anything else"), last.name).notes

\* The missing binary was reported with the text for unknown errors.
C22_Witness ==
  /\ MissingBinaryNotified /\ last.writeCalls = << >>
  /\ last.notes[1].type = "error" /\ last.notes[1].tmpl = "unknown"

-----------------------------------------------------------------------------
\* Properties of the IPC handlers. `last` with op "get" or "delete" is the
\* record of one invoke: err is what the wrapped function threw (NoErr when
\* it returned), response what the handler resolved to.

Invoked == last.op \in {"get", "delete"}

FnThrew == last.err # NoErr

\* C23: the handler always resolves. Its response is {success: true, data}
\* with the value the wrapped function returned exactly when the function
\* returned, and {success: false, error} exactly when it threw, error being
\* the user message of an AppError and 'An unexpected error occurred' for any
\* other error.
C23_HandlerNeverRejects ==
  Invoked =>
    /\ last.response # NoResponse
    /\ last.response.success <=> ~FnThrew
    /\ ~FnThrew =>
         /\ last.response.error = <<"", "">>
         /\ last.response.data = IF last.op = "get" THEN <<last.data>> ELSE << >>
    /\ FnThrew =>
         /\ last.response.data = << >>
         /\ last.response.error =
              IF last.err.isApp THEN <<last.err.tmpl, last.err.arg>>
              ELSE <<"An unexpected error occurred", "">>

\* The wrapped function threw a TypeError, no AppError.
C23_Witness ==
  /\ last.op = "delete" /\ FnThrew /\ ~last.err.isApp
  /\ ~last.response.success
  /\ last.response.error = <<"An unexpected error occurred", "">>

-----------------------------------------------------------------------------
\* What the user is shown.

\* The stage of the last install() that threw ("" when none did).
FailedStage ==
  IF \E st \in WorkStages : Threw(st) THEN CHOOSE st \in WorkStages : Threw(st) ELSE ""

\* The error notification of install() as a function of the request and of
\* the stage that failed, nothing else.
UserNote(url, stage) ==
  LET title == "MCP Server Installation Error"
      known(tmpl, arg) == [type |-> "error", title |-> title, tmpl |-> tmpl, arg |-> arg]
      name == IF parseInstallConfigUrl(url).thrown THEN "unknown" ELSE ServerNameOf(url)
      repoName == IF url.git = << >> THEN "" ELSE LastSegment(url.git[1].repo_url)
  IN IF stage = "decode" THEN known("validate", "")
     ELSE IF stage = "fetch" /\ repoName # "" THEN known("download", repoName)
     ELSE IF stage = "persist" THEN known("write", name)
     ELSE known("unknown", name)

\* The error text of an IPC response as a function of the channel and of the
\* argument, nothing else.
UserError(op, io, name) ==
  IF op = "get" THEN <<"retrieve", "">>
  ELSE IF io = "noargs" THEN <<"An unexpected error occurred", "">>
  ELSE <<"delete", name>>

\* Texts an underlying error can carry.
Causes == {"ENOENT: no such file or directory", "SyntaxError: Unexpected token", "at install (installer.js)"}

\* C24: the error notification of an install is determined by the request and
\* the stage that failed, and the error text of an IPC response by the channel
\* and its argument: two runs of one request that fail at one stage for
\* different underlying errors show the same text. Replacing the original
\* error of what was caught by any other text changes neither.
C24_UserTextIndependent ==
  /\ (InstallDone /\ last.notes # << >> /\ ErrorNotes) =>
       /\ last.notes = <<UserNote(last.url, FailedStage)>>
       /\ \A c \in Causes :
            Notify(last.win, TRUE, [last.err EXCEPT !.cause = c], last.name).notes = last.notes
  /\ (Invoked /\ FnThrew) =>
       /\ last.response.error = UserError(last.op, last.io, last.name)
       /\ \A c \in Causes :
            createIpcHandler([thrown |-> TRUE, err |-> [last.err EXCEPT !.cause = c]]).error
              = last.response.error

\* The write of an install failed on JSON.parse; the note is the one a failed
\* read gives.
C24_Witness ==
  /\ InstallDone /\ Threw("persist") /\ last.fault = "parse"
  /\ last.err.cause = "parse"
  /\ last.notes = <<UserNote(last.url, "persist")>>
  /\ last.notes[1].tmpl = "write"

-----------------------------------------------------------------------------
\* The version pin.

ResolvedLaunchers == {PathJoin("Resources/arm64", b) : b \in Binaries}

\* C25 (as the specification states it): in the rewritten args, every
\* occurrence of a launcher, uv or uvx, is immediately followed by
\* "--python", "3.12".
C25_EveryLauncherPinned ==
  (Rewritten /\ ~last.rewrite[1].fixed.thrown) =>
    LET out == last.rewrite[1].fixed.val.args
    IN \A j \in DOMAIN out :
         out[j] \in ResolvedLaunchers =>
           (j + 2 <= Len(out) /\ out[j + 1] = "--python" /\ out[j + 2] = "3.12")

\* args with uvx only come back with the path of uvx and no pin.
C25_Witness ==
  /\ Rewritten /\ ~last.rewrite[1].fixed.thrown
  /\ last.rewrite[1].config.args = <<"uvx", "run">>
  /\ last.rewrite[1].fixed.val.args = <<"Resources/arm64/uvx", "run">>

\* "--directory" is the token right after some "uv" of args.
DirectoryRightAfterUv(args) ==
  \E k \in DOMAIN args : k + 1 <= Len(args) /\ args[k] = "uv" /\ args[k + 1] = "--directory"

\* C26 (as the specification states it): unless "--directory" comes right
\* after "uv", fixConfig does not fail for lack of a repository path and
\* leaves every token that is no launcher as it was, a later "--directory"
\* and its argument included.
C26_LaterDirectoryUntouched ==
  Rewritten =>
    LET r == last.rewrite[1]
        args == r.config.args
    IN (~DirectoryRightAfterUv(args) /\ r.bundled = Binaries) =>
         /\ ~r.fixed.thrown
         /\ \A k \in DOMAIN args :
              args[k] \notin Binaries => r.fixed.val.args[Shifted(args, k)] = args[k]

\* The argument of a "--directory" two tokens after "uv" was overwritten.
C26_Witness ==
  /\ Rewritten /\ ~last.rewrite[1].fixed.thrown
  /\ last.rewrite[1].config.args = <<"uv", "run", "--directory", "run">>
  /\ last.rewrite[1].repoDir # ""
  /\ last.rewrite[1].fixed.val.args[6] = last.rewrite[1].repoDir

-----------------------------------------------------------------------------
\* The clone directories.

\* The directory install() clones the repository of url into.
RepoDirOf(url) == PathJoin(IOD_HOME, LastSegment(url.git[1].repo_url))

\* Directories an earlier install is known to have cloned into: those of the
\* servers whose install reported success.
ClonedBefore ==
  {RepoDirOf(u) : u \in {v \in Urls : /\ v.git # << >>
                                      /\ ~parseInstallConfigUrl(v).thrown
                                      /\ LastSegment(v.git[1].repo_url) # ""
                                      /\ ServerNameOf(v) \in installed}}

\* C27 (as the specification states it): no install clones into a directory
\* an earlier install has cloned into.
C27_CloneDirWrittenOnce ==
  [][(InstallDone' /\ last'.cloneCalls # << >>) =>
       last'.cloneCalls[1].dir \notin ClonedBefore]_vars

\* An install has cloned into the directory that another install of the same
\* repository, still awaiting its clone, is cloning into.
C27_Witness ==
  /\ InstallDone /\ Returned("fetch") /\ last.url = UrlSpotify
  /\ last.cloneCalls[1].dir = RepoDirOf(UrlSpotify)
  /\ \E k \in BagToSet(inflight) : k.url.git # << >> /\ RepoDirOf(k.url) = last.cloneCalls[1].dir

-----------------------------------------------------------------------------
\* install() and the watcher.

\* The last install() wrote the file (in full or in part).
InstallWrote == InstallDone /\ last.writeCalls # << >> /\ last.fault \in {"", "write"}

-----------------------------------------------------------------------------
\* What a failing install leaves of the file.

\* The last install() had something thrown in it.
InstallFailed == InstallDone /\ \E k \in DOMAIN last.events : last.events[k].at = "throw"

\* It failed before writeFileSync was called.
FailedBeforeWrite ==
  \/ Threw("decode") \/ Threw("fetch") \/ Threw("rewrite")
  \/ Threw("persist") /\ last.fault \in {"read", "parse", "type"}

\* C29: an install that fails at decoding, cloning, rewriting, or in
\* persisting before writeFileSync is called leaves the file exactly as it
\* was. A failing install changes the file in two ways only: writeFileSync
\* itself fails and leaves the file cut short; or the write succeeded and
\* the restart, or the sending of the success notification, threw, and the
\* file holds the new entry.
C29_FailedInstallAndFile ==
  [][InstallFailed' =>
       /\ FailedBeforeWrite' => file' = file
       /\ file' # file =>
            \/ Threw("persist")' /\ last'.fault = "write" /\ file' = Unparseable
            \/ /\ Returned("persist")' /\ (Threw("restart")' \/ Threw("notify-success")')
               /\ EntryOf(file', last'.name) = <<last'.writeCalls[1].config>>]_vars

\* C29 (as the specification states it): the only failing install that
\* changes the file is one that fails at the restart stage.
C29_OnlyRestartFailureChanges ==
  [][(InstallFailed' /\ file' # file) => Threw("restart")']_vars

\* writeFileSync failed on a file that held servers and left it cut short.
C29_Witness ==
  /\ InstallFailed /\ Threw("persist") /\ last.fault = "write"
  /\ last.docBefore = "servers" /\ file = Unparseable

-----------------------------------------------------------------------------
\* The observer of the watcher.

\* The watcher is subscribed, the file's content was changed under it, the
\* file is valid JSON and no 'change' event is waiting.
SettledAfterChange ==
  /\ watcher # "off" /\ shown # "unmodified" /\ ~changed
  /\ Exists(file) /\ file.parseable

\* C30 (as the specification states it): once the file has settled on a valid
\* document, the last 'claude:config-changed' event carried that document.
C30_ObserverCurrent == SettledAfterChange => shown = "current"

\* Another process put a valid file in the place of the removed one; no event
\* is waiting and the window was told nothing.
C30_Witness ==
  /\ SettledAfterChange /\ mainWindow = "open"
  /\ last.op = "external" /\ last.result = "valid" /\ last.docBefore = "missing"
  /\ shown = "nothing"
=========================================================================
